---- MODULE Spec2Model ----
(***************************************************************************)
(* Model of the team presence engine of rustplusplus:                      *)
(*   RustPlusTeamInfo        (the roster, src/structures/rustPlusTeamInfo)  *)
(*   RustPlusTeamInfoMember  (one member, rustPlusTeamInfoMember)           *)
(*                                                                         *)
(* Spec       : one RustPlusTeamInfo driven by updateTeamInfo.             *)
(* MemberSpec : one RustPlusTeamInfoMember driven by a caller that reads   *)
(*              the transition predicates and then calls                   *)
(*              updateTeamInfoMember with a new record.                    *)
(*                                                                         *)
(* Time is the wall clock in milliseconds (Date.now()); it advances in     *)
(* steps of one second.  A Date that is null is modelled as Null.          *)
(***************************************************************************)
EXTENDS Integers, Sequences, FiniteSets, TLC

VARIABLES
    now,                      \* Date.now(), milliseconds
    \* ---- RustPlusTeamInfo ----
    appTeamInfo,              \* this.appTeamInfo (the snapshot last stored)
    members,                  \* this.members: Map in insertion order, a sequence of [key, value]
    allOnline,                \* this.allOnline
    allOffline,               \* this.allOffline
    teamMemberChatColorMap,   \* gInstance.teamMemberChatColorMap
    known,                    \* steamIds that an ingested snapshot ever listed (history)
    trace,                    \* what the last updateTeamInfo call did (history)
    \* ---- a RustPlusTeamInfoMember on its own ----
    member,                   \* the object's fields
    prev,                     \* appTeamInfoMember as stored before the last update (history)
    events,                   \* predicates that were true when read before the last update (history)
    onlineStillSince,         \* start of the current online, unmoved stretch, or Null (history)
    afkRaised,                \* times isGoneAfk was true in that stretch, capped (history)
    lastSeen,                 \* time of the construction or of the last update (history)
    expected,                 \* what the rule chain of the design makes of the last update (history)
    lastOfflineAt,            \* time of the last update from online to offline, or Null (history)
    \* ---- a second RustPlusTeamInfo ----
    second,                   \* its guildId, appTeamInfo, members, allOnline, allOffline
    otherColorMap,            \* teamMemberChatColorMap of the guild the first roster is not in
    actor,                    \* the roster that made the last updateTeamInfo call, 0 for none (history)
    \* ---- CredentialsManager ----
    expirationTimeoutIds,     \* this.expirationTimeoutIds: steamId -> timeout id
    timeouts,                 \* the timeouts of setTimeout that are armed: id, steamId, due
    nextTimeoutId,            \* the id the next setTimeout returns
    credentials,              \* the credential rows of the database: steamId -> row
    sentCount,                \* steamId -> calls of sendCredentialsExpiredMessage (history)
    lastCall,                 \* the last call made on the manager (history)
    \* ---- the command reset missing_channels ----
    guildChannelIds,          \* gInstance.guildChannelIds: channel name -> channel id or Null
    channels,                 \* ids of the channels that exist in the guild
    nextChannelId,            \* the id the next created channel gets
    reset                     \* the running executeMissingChannels: position and locals

rosterVars == <<appTeamInfo, members, allOnline, allOffline, teamMemberChatColorMap, known, trace>>
memberVars == <<member, prev, events, onlineStillSince, afkRaised, lastSeen, expected, lastOfflineAt>>
secondVars == <<second, otherColorMap, actor>>
credVars == <<expirationTimeoutIds, timeouts, nextTimeoutId, credentials, sentCount, lastCall>>
resetVars == <<guildChannelIds, channels, nextChannelId, reset>>
vars == <<now, appTeamInfo, members, allOnline, allOffline, teamMemberChatColorMap, known, trace,
          member, prev, events, onlineStillSince, afkRaised, lastSeen, expected, lastOfflineAt,
          second, otherColorMap, actor,
          expirationTimeoutIds, timeouts, nextTimeoutId, credentials, sentCount, lastCall,
          guildChannelIds, channels, nextChannelId, reset>>

(***************************************************************************)
(* Bounds and input domains                                                *)
(***************************************************************************)
MaxTime == 2          \* seconds the clock may advance
MaxMembers == 2       \* longest member list of a snapshot

MsPerSecond == 1000
Null == -1

\* constants.AFK_TIME_SECONDS, scaled down to the seconds the clock can reach
AFK_TIME_SECONDS == 2

SteamIds == {"A", "B"}
Colors == {"#000000", "#FFFFFF"}

\* rp.AppTeamInfo_Member records the upstream source can send for one steamId.
\* Snapshots given to the roster vary who is listed, in which order, and who is online.
SnapshotRecords(id) ==
    { [steamId |-> id, name |-> "n1", x |-> 0, y |-> 0, isOnline |-> o,
       isAlive |-> TRUE, spawnTime |-> 1, deathTime |-> 0] : o \in BOOLEAN }

\* Records fed to a single member: every field read by a transition predicate varies.
MemberRecords(id) ==
    { [steamId |-> id, name |-> "n1", x |-> x, y |-> y, isOnline |-> o,
       isAlive |-> a, spawnTime |-> 1, deathTime |-> d] :
         x \in {0, 1}, y \in {0, 1}, o \in BOOLEAN, a \in BOOLEAN, d \in {0, 1} }

AllSnapshotRecords == UNION { SnapshotRecords(id) : id \in SteamIds }

\* Member lists without a repeated steamId (well-formed snapshots), in any order.
MemberLists ==
    { s \in UNION { [1..n -> AllSnapshotRecords] : n \in 0..MaxMembers } :
        \A i, j \in 1..Len(s) : s[i].steamId = s[j].steamId => i = j }

Snapshots == [leaderSteamId : SteamIds, members : MemberLists]

(***************************************************************************)
(* RustPlusTeamInfoMember                                                  *)
(***************************************************************************)
\* a constructor that starts with wasAfk set
NewMember_WasAfk(appTeamInfoMember) ==
    [appTeamInfoMember |-> appTeamInfoMember,
     lastMovementDate |-> Null,
     wentOfflineDate |-> Null,
     wasAfk |-> TRUE]

\* constructor
NewMember(appTeamInfoMember) ==
    [appTeamInfoMember |-> appTeamInfoMember,
     lastMovementDate |-> Null,
     wentOfflineDate |-> Null,
     wasAfk |-> FALSE]

isSteamIdChanged(m, inc) == m.appTeamInfoMember.steamId # inc.steamId
isNameChanged(m, inc) == m.appTeamInfoMember.name # inc.name
isXChanged(m, inc) == m.appTeamInfoMember.x # inc.x
isYChanged(m, inc) == m.appTeamInfoMember.y # inc.y
isOnlineChanged(m, inc) == m.appTeamInfoMember.isOnline # inc.isOnline
isSpawnTimeChanged(m, inc) == m.appTeamInfoMember.spawnTime # inc.spawnTime
isAliveChanged(m, inc) == m.appTeamInfoMember.isAlive # inc.isAlive
isDeathTimeChanged(m, inc) == m.appTeamInfoMember.deathTime # inc.deathTime

isGoneOnline(m, inc) == m.appTeamInfoMember.isOnline = FALSE /\ inc.isOnline = TRUE
\* isGoneOffline that is true for any change of the online flag
isGoneOffline_AnyChange(m, inc) == m.appTeamInfoMember.isOnline # inc.isOnline

isGoneOffline(m, inc) == m.appTeamInfoMember.isOnline = TRUE /\ inc.isOnline = FALSE

\* isGoneAlive that is true for any change of the alive flag
isGoneAlive_AnyChange(m, inc) == m.appTeamInfoMember.isAlive # inc.isAlive

isGoneAlive(m, inc) == m.appTeamInfoMember.isAlive = FALSE /\ inc.isAlive = TRUE

\* isGoneDead without the death time comparison
isGoneDead_FlagOnly(m, inc) ==
    m.appTeamInfoMember.isAlive = TRUE /\ inc.isAlive = FALSE

isGoneDead(m, inc) ==
    \/ (m.appTeamInfoMember.isAlive = TRUE /\ inc.isAlive = FALSE)
    \/ isDeathTimeChanged(m, inc)

isMoved(m, inc) == isXChanged(m, inc) \/ isYChanged(m, inc)

isGoneAfk(m, inc) ==
    /\ ~m.wasAfk
    /\ ~isMoved(m, inc)
    /\ m.appTeamInfoMember.isOnline

\* updateTeamInfoMember whose else branch clears wasAfk without testing isOnline
updateTeamInfoMember_ClearsAlways(m, inc, t) ==
    LET m1 == IF isGoneOffline(m, inc) THEN [m EXCEPT !.wentOfflineDate = t] ELSE m
        m2 == IF isGoneOnline(m1, inc)
                 THEN [m1 EXCEPT !.lastMovementDate = t, !.wasAfk = FALSE]
                 ELSE m1
        m3 == IF isMoved(m2, inc)
                 THEN [m2 EXCEPT !.lastMovementDate = t, !.wasAfk = FALSE]
                 ELSE [m2 EXCEPT !.wasAfk = FALSE]
    IN  [m3 EXCEPT !.appTeamInfoMember = inc]

\* updateTeamInfoMember, with t the value of new Date()
updateTeamInfoMember(m, inc, t) ==
    LET m1 == IF isGoneOffline(m, inc) THEN [m EXCEPT !.wentOfflineDate = t] ELSE m
        m2 == IF isGoneOnline(m1, inc)
                 THEN [m1 EXCEPT !.lastMovementDate = t, !.wasAfk = FALSE]
                 ELSE m1
        m3 == IF isMoved(m2, inc)
                 THEN [m2 EXCEPT !.lastMovementDate = t, !.wasAfk = FALSE]
                 ELSE IF ~m2.appTeamInfoMember.isOnline /\ ~isGoneOnline(m2, inc)
                        THEN [m2 EXCEPT !.wasAfk = FALSE]
                        ELSE m2
    IN  [m3 EXCEPT !.appTeamInfoMember = inc]

\* the derived queries, with t the value of Date.now()
isAfk(m, t) ==
    IF m.lastMovementDate = Null THEN FALSE
    ELSE (t - m.lastMovementDate) >= AFK_TIME_SECONDS

getAfkSeconds(m, t) ==
    IF m.lastMovementDate = Null THEN 0
    ELSE (t - m.lastMovementDate) \div MsPerSecond

getAliveSeconds(m, t) ==
    IF m.appTeamInfoMember.spawnTime = 0 THEN 0
    ELSE (t - m.appTeamInfoMember.spawnTime * MsPerSecond) \div MsPerSecond

getDeathSeconds(m, t) ==
    IF m.appTeamInfoMember.deathTime = 0 THEN 0
    ELSE (t - m.appTeamInfoMember.deathTime * MsPerSecond) \div MsPerSecond

\* getOfflineTime before secondsToFullScale formats it: Null, or the seconds offline
getOfflineTime(m, t) ==
    IF m.wentOfflineDate = Null THEN Null
    ELSE (t - m.wentOfflineDate) \div MsPerSecond

(***************************************************************************)
(* RustPlusTeamInfo                                                        *)
(***************************************************************************)
\* Map operations on the insertion-ordered sequence of entries
MapKeys(map) == { map[i].key : i \in 1..Len(map) }
MapHas(map, k) == k \in MapKeys(map)
MapIndex(map, k) == CHOOSE i \in 1..Len(map) : map[i].key = k
MapGet(map, k) == map[MapIndex(map, k)].value

\* a set that adds an entry even when the key has one
MapSet_Appends(map, k, v) == Append(map, [key |-> k, value |-> v])

MapSet(map, k, v) ==
    IF MapHas(map, k)
      THEN [map EXCEPT ![MapIndex(map, k)] = [key |-> k, value |-> v]]
      ELSE Append(map, [key |-> k, value |-> v])
MapDelete(map, k) == SelectSeq(map, LAMBDA e : e.key # k)

\* Array.prototype.find(m => m.steamId === id) on a member list, as a truth value
FindMember(list, id) == \E i \in 1..Len(list) : list[i].steamId = id

\* isLeaderSteamIdChanged with the comparison inverted
isLeaderSteamIdChanged_Same(stored, snapshot) == stored.leaderSteamId = snapshot.leaderSteamId

isLeaderSteamIdChanged(stored, snapshot) == stored.leaderSteamId # snapshot.leaderSteamId

isPlayerInTeam(map, steamId) == MapHas(map, steamId)

\* addMember with the guard inverted
addMember_GuardInverted(map, appTeamInfoMember) ==
    IF ~MapHas(map, appTeamInfoMember.steamId)
      THEN map
      ELSE MapSet(map, appTeamInfoMember.steamId, NewMember(appTeamInfoMember))

addMember(map, appTeamInfoMember) ==
    IF MapHas(map, appTeamInfoMember.steamId)
      THEN map
      ELSE MapSet(map, appTeamInfoMember.steamId, NewMember(appTeamInfoMember))

\* removeMember that deletes nothing
removeMember_Keeps(map, steamId) == map

removeMember(map, steamId) == MapDelete(map, steamId)

getNewMembers(map, snapshot) ==
    SelectSeq(snapshot.members, LAMBDA appMember : ~isPlayerInTeam(map, appMember.steamId))

\* the stored records of the entries whose steamId the snapshot lists (keepFound)
\* or does not list (~keepFound), in Map order
RECURSIVE StoredRecords(_, _, _)
StoredRecords(map, snapshot, keepFound) ==
    IF map = <<>> THEN <<>>
    ELSE LET rec == Head(map).value.appTeamInfoMember
             rest == StoredRecords(Tail(map), snapshot, keepFound)
         IN  IF FindMember(snapshot.members, rec.steamId) = keepFound
               THEN <<rec>> \o rest
               ELSE rest

\* getLeftMembers whose loop stops one entry early
getLeftMembers_SkipsLast(map, snapshot) ==
    StoredRecords(SubSeq(map, 1, Len(map) - 1), snapshot, FALSE)

getLeftMembers(map, snapshot) == StoredRecords(map, snapshot, FALSE)

getReminingMembers(map, snapshot) == StoredRecords(map, snapshot, TRUE)

\* the null that getMember returns for a steamId without an entry
NoMember == [none |-> TRUE]

getMember(map, steamId) == IF MapHas(map, steamId) THEN MapGet(map, steamId) ELSE NoMember

\* the loop of getLongestAliveMember that lets a later member with an equal time win
RECURSIVE LongestAliveLoop_LastWins(_, _, _)
LongestAliveLoop_LastWins(entries, longest, t) ==
    IF entries = <<>> THEN longest
    ELSE LET m == Head(entries).value
             next == IF longest = NoMember \/ getAliveSeconds(m, t) >= getAliveSeconds(longest, t)
                       THEN m
                       ELSE longest
         IN  LongestAliveLoop_LastWins(Tail(entries), next, t)

\* the loop of getLongestAliveMember over this.members.values()
RECURSIVE LongestAliveLoop(_, _, _)
LongestAliveLoop(entries, longest, t) ==
    IF entries = <<>> THEN longest
    ELSE LET m == Head(entries).value
             next == IF longest = NoMember \/ getAliveSeconds(m, t) > getAliveSeconds(longest, t)
                       THEN m
                       ELSE longest
         IN  LongestAliveLoop(Tail(entries), next, t)

getLongestAliveMember(map, t) ==
    IF Len(map) = 0 THEN NoMember
    ELSE LongestAliveLoop(map, NoMember, t)

\* for (const member of this.getNewMembers(...)) this.addMember(member)
RECURSIVE AddMembers(_, _)
AddMembers(map, list) ==
    IF list = <<>> THEN map
    ELSE AddMembers(addMember(map, Head(list)), Tail(list))

\* the colour part of that loop without the Object.hasOwn test: a member that has a
\* colour gets another one
RECURSIVE AssignColors_Overwrites(_, _, _)
AssignColors_Overwrites(colorMap, list, pick) ==
    IF list = <<>> THEN colorMap
    ELSE LET id == Head(list).steamId
             color == IF id \in DOMAIN pick THEN pick[id]
                      ELSE CHOOSE c \in Colors : c # colorMap[id]
             next == [k \in DOMAIN colorMap \cup {id} |->
                        IF k = id THEN color ELSE colorMap[k]]
         IN  AssignColors_Overwrites(next, Tail(list), pick)

\* the colour part of that loop; pick[id] is the value the Math.random() loop builds
RECURSIVE AssignColors(_, _, _)
AssignColors(colorMap, list, pick) ==
    IF list = <<>> THEN colorMap
    ELSE LET id == Head(list).steamId
             next == IF id \in DOMAIN colorMap
                       THEN colorMap
                       ELSE [k \in DOMAIN colorMap \cup {id} |->
                               IF k = id THEN pick[id] ELSE colorMap[k]]
         IN  AssignColors(next, Tail(list), pick)

\* for (const member of this.getLeftMembers(...)) this.removeMember(member.steamId)
RECURSIVE RemoveMembers(_, _)
RemoveMembers(map, list) ==
    IF list = <<>> THEN map
    ELSE RemoveMembers(removeMember(map, Head(list).steamId), Tail(list))

\* for (const member of this.getReminingMembers(...)) teamMember.updateTeamInfoMember(member)
RECURSIVE UpdateMembers(_, _, _)
UpdateMembers(map, list, t) ==
    IF list = <<>> THEN map
    ELSE LET rec == Head(list)
             teamMember == getMember(map, rec.steamId)
             next == IF teamMember # NoMember
                       THEN MapSet(map, rec.steamId, updateTeamInfoMember(teamMember, rec, t))
                       ELSE map
         IN  UpdateMembers(next, Tail(list), t)

\* the two aggregate loops at the end of updateTeamInfo
AllOnlineOf(map) == \A i \in 1..Len(map) : map[i].value.appTeamInfoMember.isOnline

AllOfflineOf(map) == \A i \in 1..Len(map) : ~map[i].value.appTeamInfoMember.isOnline

SteamIdsOf(list) == [i \in 1..Len(list) |-> list[i].steamId]

\* the steamIds for which addMember inserted a Member, in call order
RECURSIVE InsertedIds(_, _)
InsertedIds(map, list) ==
    IF list = <<>> THEN <<>>
    ELSE LET next == addMember(map, Head(list))
         IN  IF next = map
               THEN InsertedIds(map, Tail(list))
               ELSE <<Head(list).steamId>> \o InsertedIds(next, Tail(list))

\* the steamIds a member list names
ListedIds(list) == { list[i].steamId : i \in 1..Len(list) }

NoTrace ==
    [ingested |-> FALSE, before |-> {}, leaderChanged |-> FALSE,
     leaderBefore |-> "", leaderSteamId |-> "",
     joined |-> <<>>, rejoined |-> {}, left |-> <<>>, remaining |-> <<>>, log |-> <<>>]

\* the calls of one updateTeamInfo in the order the code makes them
CallLog(leaderChanged, leaderSteamId, newMembers, leftMembers, remaining) ==
    (IF leaderChanged THEN <<[op |-> "leader", id |-> leaderSteamId]>> ELSE <<>>)
    \o [i \in 1..Len(newMembers) |-> [op |-> "add", id |-> newMembers[i].steamId]]
    \o [i \in 1..Len(leftMembers) |-> [op |-> "remove", id |-> leftMembers[i].steamId]]
    \o [i \in 1..Len(remaining) |-> [op |-> "update", id |-> remaining[i].steamId]]

(***************************************************************************)
(* Actions of the roster                                                   *)
(***************************************************************************)
\* the clock advances by one second
Tick ==
    /\ now < MaxTime * MsPerSecond
    /\ now' = now + MsPerSecond
    /\ UNCHANGED <<rosterVars, memberVars, secondVars, credVars, resetVars>>

\* updateTeamInfo(snapshot); pick is the outcome of the random colour loops
updateTeamInfo(snapshot, pick) ==
    LET leaderChanged == isLeaderSteamIdChanged(appTeamInfo, snapshot)
        newMembers == getNewMembers(members, snapshot)
        added == AddMembers(members, newMembers)
        leftMembers == getLeftMembers(added, snapshot)
        removed == RemoveMembers(added, leftMembers)
        remaining == getReminingMembers(removed, snapshot)
        updated == UpdateMembers(removed, remaining, now)
        joined == InsertedIds(members, newMembers)
    IN  /\ members' = updated
        /\ teamMemberChatColorMap' = AssignColors(teamMemberChatColorMap, newMembers, pick)
        /\ allOnline' = AllOnlineOf(updated)
        /\ allOffline' = AllOfflineOf(updated)
        /\ appTeamInfo' = snapshot
        /\ known' = known \cup ListedIds(snapshot.members)
        /\ trace' = [ingested |-> TRUE,
                     before |-> MapKeys(members),
                     leaderChanged |-> leaderChanged,
                     leaderBefore |-> appTeamInfo.leaderSteamId,
                     leaderSteamId |-> snapshot.leaderSteamId,
                     joined |-> joined,
                     rejoined |-> (ListedIds(snapshot.members) \cap known)
                                    \ ListedIds(appTeamInfo.members),
                     left |-> SteamIdsOf(leftMembers),
                     remaining |-> remaining,
                     log |-> CallLog(leaderChanged, snapshot.leaderSteamId,
                                     newMembers, leftMembers, remaining)]
        /\ UNCHANGED <<now, memberVars>>

\* the steamIds of a snapshot that get a colour in this call
Uncoloured(snapshot) ==
    { id \in SteamIds : /\ FindMember(getNewMembers(members, snapshot), id)
                        /\ id \notin DOMAIN teamMemberChatColorMap }

Ingest ==
    /\ \E snapshot \in Snapshots :
          \E pick \in [Uncoloured(snapshot) -> Colors] : updateTeamInfo(snapshot, pick)
    /\ UNCHANGED <<secondVars, credVars, resetVars>>

\* the guilds of the guild instance manager; the first roster is in FirstGuild
Guilds == {"g1", "g2"}
FirstGuild == "g1"

\* there is no second roster
IdleSecond ==
    /\ second = [guildId |-> "g2", appTeamInfo |-> [leaderSteamId |-> "A", members |-> <<>>],
                 members |-> <<>>, allOnline |-> FALSE, allOffline |-> FALSE]
    /\ otherColorMap = <<>>
    /\ actor = 0

\* the last call on a manager, before any call
NoCall == [op |-> "none"]

\* there is no CredentialsManager
IdleCredentials ==
    /\ expirationTimeoutIds = <<>>
    /\ timeouts = {}
    /\ nextTimeoutId = 1
    /\ credentials = <<>>
    /\ sentCount = [id \in SteamIds |-> 0]
    /\ lastCall = NoCall

\* the command is not running
NoReset == [pc |-> "idle", entries |-> <<>>, resetChannels |-> <<>>, setups |-> <<>>,
            resolved |-> {}, before |-> <<>>]

\* there is no guild with channels
IdleReset ==
    /\ guildChannelIds = <<>>
    /\ channels = {}
    /\ nextChannelId = 1
    /\ reset = NoReset

\* the member variables are not used by the roster
IdleMember ==
    /\ member = NewMember(CHOOSE r \in MemberRecords("A") : TRUE)
    /\ prev = member.appTeamInfoMember
    /\ events = {}
    /\ onlineStillSince = Null
    /\ afkRaised = 0
    /\ lastSeen = 0
    /\ expected = member
    /\ lastOfflineAt = Null

\* constructor(rpInstance, appTeamInfo)
Init ==
    /\ now = 0
    /\ appTeamInfo \in Snapshots
    /\ members = <<>>
    /\ allOnline = FALSE
    /\ allOffline = FALSE
    /\ teamMemberChatColorMap = <<>>
    /\ known = {}
    /\ trace = NoTrace
    /\ IdleMember
    /\ IdleSecond
    /\ IdleCredentials
    /\ IdleReset

Next == Tick \/ Ingest

Spec == Init /\ [][Next]_vars

(***************************************************************************)
(* The roster fed with snapshots that differ in spawn time                 *)
(***************************************************************************)
SpawnTimes == {0, 1, 2}

SpawnRecords(id) ==
    { [steamId |-> id, name |-> "n1", x |-> 0, y |-> 0, isOnline |-> TRUE,
       isAlive |-> TRUE, spawnTime |-> sp, deathTime |-> 0] : sp \in SpawnTimes }

AllSpawnRecords == UNION { SpawnRecords(id) : id \in SteamIds }

SpawnLists ==
    { s \in UNION { [1..n -> AllSpawnRecords] : n \in 0..MaxMembers } :
        \A i, j \in 1..Len(s) : s[i].steamId = s[j].steamId => i = j }

SpawnSnapshots == [leaderSteamId : {"A"}, members : SpawnLists]

AliveInit ==
    /\ now = 0
    /\ appTeamInfo = [leaderSteamId |-> "A", members |-> <<>>]
    /\ members = <<>>
    /\ allOnline = FALSE
    /\ allOffline = FALSE
    /\ teamMemberChatColorMap = <<>>
    /\ known = {}
    /\ trace = NoTrace
    /\ IdleMember
    /\ IdleSecond
    /\ IdleCredentials
    /\ IdleReset

\* updateTeamInfo with a snapshot whose spawn times are not in the future
IngestSpawn ==
    /\ \E snapshot \in SpawnSnapshots :
          /\ \A i \in 1..Len(snapshot.members) :
                snapshot.members[i].spawnTime * MsPerSecond <= now
          /\ \E pick \in [Uncoloured(snapshot) -> Colors] : updateTeamInfo(snapshot, pick)
    /\ UNCHANGED <<secondVars, credVars, resetVars>>

AliveNext == Tick \/ IngestSpawn

AliveSpec == AliveInit /\ [][AliveNext]_vars

(***************************************************************************)
(* Two rosters                                                             *)
(***************************************************************************)
\* snapshots of the two rosters: everybody online, leader A
PairSnapshots ==
    { s \in Snapshots :
        /\ s.leaderSteamId = "A"
        /\ \A i \in 1..Len(s.members) : s.members[i].isOnline }

\* gim.getGuildInstance(guildId) is the guild instance the first roster uses
SharesGuild(guildId) == guildId = FirstGuild

\* gim.getGuildInstance(second.guildId).teamMemberChatColorMap
ColorMapOfSecond ==
    IF SharesGuild(second.guildId) THEN teamMemberChatColorMap ELSE otherColorMap

TwoInit ==
    /\ now = 0
    /\ appTeamInfo = [leaderSteamId |-> "A", members |-> <<>>]
    /\ members = <<>>
    /\ allOnline = FALSE
    /\ allOffline = FALSE
    /\ teamMemberChatColorMap = <<>>
    /\ known = {}
    /\ trace = NoTrace
    /\ IdleMember
    /\ \E g \in Guilds :
          second = [guildId |-> g, appTeamInfo |-> [leaderSteamId |-> "A", members |-> <<>>],
                    members |-> <<>>, allOnline |-> FALSE, allOffline |-> FALSE]
    /\ otherColorMap = <<>>
    /\ actor = 0
    /\ IdleCredentials
    /\ IdleReset

\* updateTeamInfo(snapshot) on the first roster
IngestFirst ==
    /\ \E snapshot \in PairSnapshots :
          \E pick \in [Uncoloured(snapshot) -> Colors] : updateTeamInfo(snapshot, pick)
    /\ actor' = 1
    /\ UNCHANGED <<second, otherColorMap, credVars, resetVars>>

\* updateTeamInfo(snapshot) on the second roster
IngestSecond ==
    \E snapshot \in PairSnapshots :
        LET newMembers == getNewMembers(second.members, snapshot)
            added == AddMembers(second.members, newMembers)
            leftMembers == getLeftMembers(added, snapshot)
            removed == RemoveMembers(added, leftMembers)
            remaining == getReminingMembers(removed, snapshot)
            updated == UpdateMembers(removed, remaining, now)
            uncoloured == { id \in ListedIds(newMembers) : id \notin DOMAIN ColorMapOfSecond }
        IN  \E pick \in [uncoloured -> Colors] :
                /\ second' = [guildId |-> second.guildId,
                              appTeamInfo |-> snapshot,
                              members |-> updated,
                              allOnline |-> AllOnlineOf(updated),
                              allOffline |-> AllOfflineOf(updated)]
                /\ IF SharesGuild(second.guildId)
                     THEN /\ teamMemberChatColorMap' =
                               AssignColors(teamMemberChatColorMap, newMembers, pick)
                          /\ UNCHANGED otherColorMap
                     ELSE /\ otherColorMap' = AssignColors(otherColorMap, newMembers, pick)
                          /\ UNCHANGED teamMemberChatColorMap
                /\ actor' = 2
                /\ UNCHANGED <<now, appTeamInfo, members, allOnline, allOffline, known, trace,
                               memberVars, credVars, resetVars>>

TwoNext == IngestFirst \/ IngestSecond

TwoSpec == TwoInit /\ [][TwoNext]_vars

(***************************************************************************)
(* CredentialsManager                                                      *)
(***************************************************************************)
MaxTimeouts == 3      \* calls of setTimeout

\* the values the JavaScript of the manager computes with
Undefined == [t |-> "undefined"]
JsNull == [t |-> "null"]
NaN == [t |-> "NaN"]
Num(n) == [t |-> "number", v |-> n]
Bool(b) == [t |-> "boolean", v |-> b]
PromiseOf(x) == [t |-> "Promise", v |-> x]

\* a row of the credential table as the object the database client returns
RowObject(row) ==
    [t |-> "object",
     expireDate |-> Num(row.expireDate),
     expirationNotified |-> Bool(row.expirationNotified)]

\* obj.name: a credential object has the property, any other value here has not
GetProperty(obj, name) == IF obj.t = "object" THEN obj[name] ELSE Undefined

ToNumber(a) ==
    IF a.t = "number" THEN a
    ELSE IF a.t = "boolean" THEN Num(IF a.v THEN 1 ELSE 0)
    ELSE IF a.t = "null" THEN Num(0)
    ELSE NaN

ToBoolean(a) ==
    IF a.t = "boolean" THEN a.v
    ELSE IF a.t = "number" THEN a.v # 0
    ELSE a.t \notin {"undefined", "null", "NaN"}

\* a - b, a * b, a + b on numbers; NaN when an operand is not a number
Minus(a, b) ==
    LET x == ToNumber(a)
        y == ToNumber(b)
    IN  IF x.t = "number" /\ y.t = "number" THEN Num(x.v - y.v) ELSE NaN

Times(a, b) ==
    LET x == ToNumber(a)
        y == ToNumber(b)
    IN  IF x.t = "number" /\ y.t = "number" THEN Num(x.v * y.v) ELSE NaN

Plus(a, b) ==
    LET x == ToNumber(a)
        y == ToNumber(b)
    IN  IF x.t = "number" /\ y.t = "number" THEN Num(x.v + y.v) ELSE NaN

\* a < b and a <= b: false when an operand is NaN
LessThan(a, b) ==
    LET x == ToNumber(a)
        y == ToNumber(b)
    IN  x.t = "number" /\ y.t = "number" /\ x.v < y.v

LessOrEqual(a, b) ==
    LET x == ToNumber(a)
        y == ToNumber(b)
    IN  x.t = "number" /\ y.t = "number" /\ x.v <= y.v

\* the delay setTimeout uses: a delay that is not a number of at least 1 becomes 1
TimeoutDelay(ms) == IF ms.t = "number" /\ ms.v >= 1 THEN ms.v ELSE 1

\* the rows the credential table can hold for a steamId (expireDate in seconds)
CredentialRows == [expireDate : {0, 1}, expirationNotified : BOOLEAN]

CredentialTables ==
    UNION { [ids -> CredentialRows] : ids \in SUBSET SteamIds }

\* getCredentials is async: what the caller gets is the Promise of the row or of null
getCredentials(table, steamId) ==
    PromiseOf(IF steamId \in DOMAIN table THEN RowObject(table[steamId]) ELSE JsNull)

\* cancelExpireTimeout that clears the timeout and keeps the Map entry
cancelExpireTimeout_KeepsEntry(ids, armed, steamId) ==
    IF steamId \in DOMAIN ids
      THEN [ids |-> ids, armed |-> { tm \in armed : tm.id # ids[steamId] }]
      ELSE [ids |-> ids, armed |-> armed]

\* cancelExpireTimeout on the Map ids and the armed timeouts
cancelExpireTimeout(ids, armed, steamId) ==
    IF steamId \in DOMAIN ids
      THEN [ids |-> [k \in DOMAIN ids \ {steamId} |-> ids[k]],
            armed |-> { tm \in armed : tm.id # ids[steamId] }]
      ELSE [ids |-> ids, armed |-> armed]

\* handleExpiredCredentials at time t: the Map, the armed timeouts and whether
\* sendCredentialsExpiredMessage was called. After the message updateCredentials
\* reads this.credentialsMap, which the class does not have, and throws, so the
\* cancelExpireTimeout at the end is not reached on that path.
handleExpiredCredentials(ids, armed, table, steamId, t) ==
    LET creds == getCredentials(table, steamId)
        currentTimestamp == Num(t \div MsPerSecond)
    IN  IF creds = JsNull
          THEN [ids |-> ids, armed |-> armed, sent |-> FALSE]
        ELSE IF /\ LessThan(GetProperty(creds, "expireDate"), currentTimestamp)
                /\ ~ToBoolean(GetProperty(creds, "expirationNotified"))
          THEN [ids |-> ids, armed |-> armed, sent |-> TRUE]
        ELSE LET c == cancelExpireTimeout(ids, armed, steamId)
             IN  [ids |-> c.ids, armed |-> c.armed, sent |-> FALSE]

\* the row of steamId is there, expired at time t and not notified
IsDue(table, steamId, t) ==
    /\ steamId \in DOMAIN table
    /\ table[steamId].expireDate < t \div MsPerSecond
    /\ ~table[steamId].expirationNotified

\* the record of one run of the handler
HandlerCall(steamId, h) ==
    [op |-> "handle", steamId |-> steamId,
     due |-> IsDue(credentials, steamId, now), sent |-> h.sent]

\* scheduleExpireTimeout(steamId, dm)
scheduleExpireTimeout(steamId) ==
    LET c == IF steamId \in DOMAIN expirationTimeoutIds
               THEN cancelExpireTimeout(expirationTimeoutIds, timeouts, steamId)
               ELSE [ids |-> expirationTimeoutIds, armed |-> timeouts]
        creds == getCredentials(credentials, steamId)
        currentTimestamp == Num(now \div MsPerSecond)
        timeoutBufferMs == Num(5000)
        timeoutMs == Plus(Times(Minus(GetProperty(creds, "expireDate"), currentTimestamp),
                                Num(1000)),
                          timeoutBufferMs)
        h == handleExpiredCredentials(c.ids, c.armed, credentials, steamId, now)
    IN  /\ nextTimeoutId <= MaxTimeouts
        /\ IF creds = JsNull
             THEN /\ expirationTimeoutIds' = c.ids
                  /\ timeouts' = c.armed
                  /\ lastCall' = [op |-> "schedule", steamId |-> steamId]
                  /\ UNCHANGED <<nextTimeoutId, sentCount>>
           ELSE IF LessOrEqual(timeoutMs, Num(0))
             THEN /\ expirationTimeoutIds' = h.ids
                  /\ timeouts' = h.armed
                  /\ sentCount' = [sentCount EXCEPT ![steamId] = @ + (IF h.sent THEN 1 ELSE 0)]
                  /\ lastCall' = HandlerCall(steamId, h)
                  /\ UNCHANGED nextTimeoutId
           ELSE /\ timeouts' = c.armed \cup {[id |-> nextTimeoutId, steamId |-> steamId,
                                              due |-> now + TimeoutDelay(timeoutMs)]}
                /\ expirationTimeoutIds' =
                      [k \in DOMAIN c.ids \cup {steamId} |->
                         IF k = steamId THEN nextTimeoutId ELSE c.ids[k]]
                /\ nextTimeoutId' = nextTimeoutId + 1
                /\ lastCall' = [op |-> "schedule", steamId |-> steamId]
                /\ UNCHANGED sentCount
        /\ UNCHANGED <<now, credentials, rosterVars, memberVars, secondVars, resetVars>>

Schedule == \E steamId \in SteamIds : scheduleExpireTimeout(steamId)

\* a call of cancelExpireTimeout from outside, as deleteCredentials makes it
Cancel ==
    \E steamId \in SteamIds :
        LET c == cancelExpireTimeout(expirationTimeoutIds, timeouts, steamId)
        IN  /\ expirationTimeoutIds' = c.ids
            /\ timeouts' = c.armed
            /\ lastCall' = [op |-> "cancel", steamId |-> steamId]
            /\ UNCHANGED <<now, nextTimeoutId, credentials, sentCount,
                           rosterVars, memberVars, secondVars, resetVars>>

\* an armed timeout is due within the current second and its callback runs
TimeoutFires ==
    \E tm \in timeouts :
        LET h == handleExpiredCredentials(expirationTimeoutIds, timeouts \ {tm},
                                          credentials, tm.steamId, now)
        IN  /\ tm.due < now + MsPerSecond
            /\ expirationTimeoutIds' = h.ids
            /\ timeouts' = h.armed
            /\ sentCount' = [sentCount EXCEPT ![tm.steamId] = @ + (IF h.sent THEN 1 ELSE 0)]
            /\ lastCall' = HandlerCall(tm.steamId, h)
            /\ UNCHANGED <<now, nextTimeoutId, credentials,
                           rosterVars, memberVars, secondVars, resetVars>>

\* setCredentials(data): the row of data.steamId is created or replaced
setCredentials ==
    \E steamId \in SteamIds, row \in CredentialRows :
        /\ credentials' = [k \in DOMAIN credentials \cup {steamId} |->
                             IF k = steamId THEN row ELSE credentials[k]]
        /\ lastCall' = [op |-> "set", steamId |-> steamId]
        /\ UNCHANGED <<now, expirationTimeoutIds, timeouts, nextTimeoutId, sentCount,
                       rosterVars, memberVars, secondVars, resetVars>>

\* the roster, the member and the second roster are not used
IdleTeamInfo ==
    /\ appTeamInfo = [leaderSteamId |-> "A", members |-> <<>>]
    /\ members = <<>>
    /\ allOnline = FALSE
    /\ allOffline = FALSE
    /\ teamMemberChatColorMap = <<>>
    /\ known = {}
    /\ trace = NoTrace
    /\ IdleSecond
    /\ IdleMember

\* constructor()
CredInit ==
    /\ now = 0
    /\ IdleTeamInfo
    /\ IdleReset
    /\ expirationTimeoutIds = <<>>
    /\ timeouts = {}
    /\ nextTimeoutId = 1
    /\ credentials \in CredentialTables
    /\ sentCount = [id \in SteamIds |-> 0]
    /\ lastCall = NoCall

CredNext == Tick \/ Schedule \/ Cancel \/ TimeoutFires \/ setCredentials

CredSpec == CredInit /\ [][CredNext]_vars

(***************************************************************************)
(* The command reset missing_channels                                      *)
(***************************************************************************)
MaxChannels == 6      \* channel ids the guild hands out

\* keys of guildChannelIds, in the order Object.entries lists them
ChannelNames == <<"category", "settings", "teamchat">>

NameSet == { ChannelNames[i] : i \in 1..Len(ChannelNames) }

\* the id the guild gave to the channel of a name when it was first set up
FirstIdOf(name) == CHOOSE i \in 1..Len(ChannelNames) : ChannelNames[i] = name

\* dm.getChannel(guildId, channelId), as a truth value
getChannel(existing, channelId) == channelId \in existing

\* the test of the loop that only looks at the stored id
IsMissing_NullOnly(channelId, existing) == channelId = Null

\* the test of the loop: the entry is not skipped by continue
IsMissing(channelId, existing) ==
    ~(channelId # Null /\ getChannel(existing, channelId))

\* Object.entries(gInstance.guildChannelIds)
Entries(ids) == [i \in 1..Len(ChannelNames) |->
                   [channelName |-> ChannelNames[i], channelId |-> ids[ChannelNames[i]]]]

\* a guild that was set up, where channels have been deleted and ids cleared
ResetInit ==
    /\ now = 0
    /\ IdleTeamInfo
    /\ IdleCredentials
    /\ guildChannelIds \in { ids \in [NameSet -> {Null} \cup (1..Len(ChannelNames))] :
                                \A name \in NameSet : ids[name] \in {Null, FirstIdOf(name)} }
    /\ channels \in SUBSET (1..Len(ChannelNames))
    /\ nextChannelId = Len(ChannelNames) + 1
    /\ reset = NoReset

\* somebody deletes a channel of the guild
DeleteChannel ==
    \E id \in channels :
        /\ channels' = channels \ {id}
        /\ UNCHANGED <<now, guildChannelIds, nextChannelId, reset,
                       rosterVars, memberVars, secondVars, credVars>>

\* executeMissingChannels up to the first iteration of the loop
StartReset ==
    /\ reset.pc \in {"idle", "done"}
    /\ nextChannelId <= MaxChannels
    /\ reset' = [pc |-> "loop", entries |-> Entries(guildChannelIds),
                 resetChannels |-> <<>>, setups |-> <<>>, resolved |-> {},
                 before |-> guildChannelIds]
    /\ UNCHANGED <<now, guildChannelIds, channels, nextChannelId,
                   rosterVars, memberVars, secondVars, credVars>>

\* one iteration of the loop; setupGuildChannel(guild, channelName, true) creates
\* the channel and stores its id
ResetStep ==
    /\ reset.pc = "loop"
    /\ reset.entries # <<>>
    /\ LET entry == Head(reset.entries)
           name == entry.channelName
           stored == guildChannelIds[name]
       IN  IF IsMissing(entry.channelId, channels)
             THEN /\ nextChannelId <= MaxChannels
                  /\ reset' = [reset EXCEPT !.entries = Tail(@),
                                            !.resetChannels = Append(@, name),
                                            !.setups = Append(@, name)]
                  /\ guildChannelIds' = [guildChannelIds EXCEPT ![name] = nextChannelId]
                  /\ channels' = channels \cup {nextChannelId}
                  /\ nextChannelId' = nextChannelId + 1
             ELSE /\ reset' = [reset EXCEPT
                                 !.entries = Tail(@),
                                 !.resolved =
                                     IF stored # Null /\ stored \in channels
                                       THEN @ \cup {name} ELSE @]
                  /\ UNCHANGED <<guildChannelIds, channels, nextChannelId>>
    /\ UNCHANGED <<now, rosterVars, memberVars, secondVars, credVars>>

\* the loop is over: the reply lists resetChannels and the command returns
ResetReply ==
    /\ reset.pc = "loop"
    /\ reset.entries = <<>>
    /\ reset' = [reset EXCEPT !.pc = "done"]
    /\ UNCHANGED <<now, guildChannelIds, channels, nextChannelId,
                   rosterVars, memberVars, secondVars, credVars>>

ResetNext == DeleteChannel \/ StartReset \/ ResetStep \/ ResetReply

ResetSpec == ResetInit /\ [][ResetNext]_vars

(***************************************************************************)
(* A RustPlusTeamInfoMember on its own                                     *)
(***************************************************************************)
\* the roster variables are not used by a member on its own
IdleRoster ==
    /\ appTeamInfo = [leaderSteamId |-> "A", members |-> <<>>]
    /\ members = <<>>
    /\ allOnline = FALSE
    /\ allOffline = FALSE
    /\ teamMemberChatColorMap = <<>>
    /\ known = {}
    /\ trace = NoTrace
    /\ IdleSecond
    /\ IdleCredentials
    /\ IdleReset

\* new RustPlusTeamInfoMember(rpInstance, record)
MemberInit ==
    /\ now = 0
    /\ IdleRoster
    /\ \E record \in MemberRecords("A") :
          /\ member = NewMember(record)
          /\ prev = record
          /\ onlineStillSince = IF record.isOnline THEN 0 ELSE Null
    /\ events = {}
    /\ afkRaised = 0
    /\ lastSeen = 0
    /\ expected = member
    /\ lastOfflineAt = Null

\* what a caller sees when it reads the transition predicates for inc
Transitions(m, inc) ==
    { e \in {"GoneOnline", "GoneOffline", "GoneAlive", "GoneDead", "GoneAfk"} :
        \/ e = "GoneOnline" /\ isGoneOnline(m, inc)
        \/ e = "GoneOffline" /\ isGoneOffline(m, inc)
        \/ e = "GoneAlive" /\ isGoneAlive(m, inc)
        \/ e = "GoneDead" /\ isGoneDead(m, inc)
        \/ e = "GoneAfk" /\ isGoneAfk(m, inc) }

\* the stored and the incoming record are both online at the same position
SameStretch(stored, inc) ==
    /\ stored.isOnline /\ inc.isOnline
    /\ stored.x = inc.x /\ stored.y = inc.y

\* update(incoming) as the rule chain of the design states it
SpecUpdate(m, inc, t) ==
    LET stored == m.appTeamInfoMember
        wentOffline == stored.isOnline /\ ~inc.isOnline
        wentOnline == ~stored.isOnline /\ inc.isOnline
        moved == stored.x # inc.x \/ stored.y # inc.y
        step1 == IF wentOffline THEN [m EXCEPT !.wentOfflineDate = t] ELSE m
        step4 == IF wentOnline THEN [step1 EXCEPT !.lastMovementDate = t, !.wasAfk = FALSE]
                 ELSE IF moved THEN [step1 EXCEPT !.lastMovementDate = t, !.wasAfk = FALSE]
                 ELSE IF ~stored.isOnline /\ ~wentOnline THEN [step1 EXCEPT !.wasAfk = FALSE]
                 ELSE step1
    IN  [step4 EXCEPT !.appTeamInfoMember = inc]

\* the caller reads the predicates, then calls updateTeamInfoMember(inc)
MemberUpdate ==
    \E inc \in MemberRecords(member.appTeamInfoMember.steamId) :
        /\ events' = Transitions(member, inc)
        /\ prev' = member.appTeamInfoMember
        /\ member' = updateTeamInfoMember(member, inc, now)
        /\ onlineStillSince' =
              IF ~inc.isOnline THEN Null
              ELSE IF SameStretch(member.appTeamInfoMember, inc) THEN onlineStillSince
              ELSE now
        /\ lastSeen' = now
        /\ expected' = SpecUpdate(member, inc, now)
        /\ lastOfflineAt' =
              IF member.appTeamInfoMember.isOnline /\ ~inc.isOnline THEN now ELSE lastOfflineAt
        /\ afkRaised' =
              LET raised == IF "GoneAfk" \in Transitions(member, inc) THEN 1 ELSE 0
              IN  IF SameStretch(member.appTeamInfoMember, inc)
                    THEN IF afkRaised + raised > 2 THEN 2 ELSE afkRaised + raised
                    ELSE 0
        /\ UNCHANGED <<now, rosterVars, secondVars, credVars, resetVars>>

MemberNext == Tick \/ MemberUpdate

MemberSpec == MemberInit /\ [][MemberNext]_vars

(***************************************************************************)
(* updateTeamInfoMember applied to any stored state                        *)
(***************************************************************************)
\* the fields of a Member are public: any stored state, with the clock at 0
StoredStates ==
    [appTeamInfoMember : MemberRecords("A"),
     lastMovementDate : {Null, 0},
     wentOfflineDate : {Null, 0},
     wasAfk : BOOLEAN]

UpdateInit ==
    /\ now = 0
    /\ IdleRoster
    /\ member \in StoredStates
    /\ prev = member.appTeamInfoMember
    /\ onlineStillSince = IF member.appTeamInfoMember.isOnline THEN 0 ELSE Null
    /\ events = {}
    /\ afkRaised = 0
    /\ lastSeen = 0
    /\ expected = member
    /\ lastOfflineAt = member.wentOfflineDate

UpdateSpec == UpdateInit /\ [][MemberNext]_vars

(***************************************************************************)
(* Properties                                                              *)
(***************************************************************************)
\* the record a member list holds for a steamId
RecordOf(list, id) == list[CHOOSE j \in 1..Len(list) : list[j].steamId = id]

\* how often a steamId occurs in a sequence of steamIds
Count(seq, id) == Cardinality({ i \in 1..Len(seq) : seq[i] = id })

\* C1: after every updateTeamInfo, each member of the roster stores the record
\* that the snapshot just ingested holds for its steamId.
C1_RawFieldsReflectSnapshot ==
    trace.ingested =>
        \A i \in 1..Len(members) :
            FindMember(appTeamInfo.members, members[i].key) =>
                members[i].value.appTeamInfoMember = RecordOf(appTeamInfo.members, members[i].key)

\* C2: after every updateTeamInfo, isPlayerInTeam(id) is true exactly for the
\* steamIds that the snapshot just ingested lists.
C2_RosterIsSnapshot ==
    trace.ingested =>
        \A id \in SteamIds :
            isPlayerInTeam(members, id) <=> FindMember(appTeamInfo.members, id)

\* an ingest in which one member left while another stayed or joined
C2_Witness ==
    /\ trace.ingested
    /\ Len(trace.left) > 0
    /\ Len(members) > 0
    /\ \E id \in known : ~isPlayerInTeam(members, id)

\* C3: when a member stored as online is listed as offline by the next snapshot,
\* that updateTeamInfo sets its wentOfflineDate, so getOfflineTime is not null.
C3_OfflineDetectedOnIngest ==
    [][now' = now =>
        \A i \in 1..Len(members) :
            LET id == members[i].key
            IN  ( /\ members[i].value.appTeamInfoMember.isOnline
                  /\ FindMember(appTeamInfo'.members, id)
                  /\ ~RecordOf(appTeamInfo'.members, id).isOnline )
                => /\ isPlayerInTeam(members', id)
                   /\ getMember(members', id).wentOfflineDate # Null
                   /\ getOfflineTime(getMember(members', id), now') # Null]_vars

\* C4: allOnline holds exactly when the roster is not empty and every member is
\* stored online, allOffline exactly when it is not empty and every member is
\* stored offline; both are false while the roster is empty.
C4_AggregateFlags ==
    /\ allOnline <=> (Len(members) > 0 /\ AllOnlineOf(members))
    /\ allOffline <=> (Len(members) > 0 /\ AllOfflineOf(members))

\* C5: in every updateTeamInfo a steamId that the snapshot lists and the roster did
\* not hold is inserted exactly once and is a member afterwards; one that the
\* roster held and the snapshot omits is removed exactly once and is no member
\* afterwards; any other steamId is neither inserted nor removed.
C5_JoinAndLeaveOnce ==
    trace.ingested =>
        \A id \in SteamIds :
            LET listed == FindMember(appTeamInfo.members, id)
                held == id \in trace.before
                entries == Cardinality({ i \in 1..Len(members) : members[i].key = id })
            IN  /\ (listed /\ ~held) =>
                      /\ Count(trace.joined, id) = 1 /\ Count(trace.left, id) = 0
                      /\ entries = 1
                /\ (held /\ ~listed) =>
                      /\ Count(trace.left, id) = 1 /\ Count(trace.joined, id) = 0
                      /\ entries = 0
                /\ (listed <=> held) =>
                      /\ Count(trace.joined, id) = 0 /\ Count(trace.left, id) = 0

\* an ingest in which one steamId joined and another left
C5_Witness ==
    /\ trace.ingested
    /\ Len(trace.joined) = 1
    /\ Len(trace.left) = 1
    /\ trace.joined[1] # trace.left[1]

\* C6: when the incoming record equals the stored record, none of the transition
\* predicates is true.
C6_IdenticalRecordNoTransition ==
    prev = member.appTeamInfoMember => events = {}

\* C7: while a member stays online at one position, isGoneAfk is true in at most
\* one update, and after that update wasAfk is true.
C7_IdleRaisedOnce ==
    /\ afkRaised <= 1
    /\ afkRaised = 1 => member.wasAfk

\* C8: a member seen online at one position over updates that span at least the
\* idle threshold reports getAfkSeconds() >= threshold and isAfk() true.
C8_IdleAfterThreshold ==
    ( /\ onlineStillSince # Null
      /\ lastSeen - onlineStillSince >= AFK_TIME_SECONDS * MsPerSecond )
    => /\ getAfkSeconds(member, now) >= AFK_TIME_SECONDS
       /\ isAfk(member, now)

\* C9: isGoneDead(incoming) is true exactly when the stored record is alive and the
\* incoming one is dead, or the incoming deathTime differs from the stored one.
C9_BecameDead ==
    ("GoneDead" \in events) <=>
        \/ (prev.isAlive /\ ~member.appTeamInfoMember.isAlive)
        \/ member.appTeamInfoMember.deathTime # prev.deathTime

\* isGoneDead was true for a member that stayed alive: only deathTime changed
C9_Witness ==
    /\ "GoneDead" \in events
    /\ prev.isAlive
    /\ member.appTeamInfoMember.isAlive
    /\ prev.deathTime # member.appTeamInfoMember.deathTime

\* C10: a steamId that was listed earlier, was missing from the previous snapshot
\* and is listed again is held by a Member in its constructed state (no
\* lastMovementDate, no wentOfflineDate, wasAfk false) with the record of the
\* snapshot that brought it back.
C10_RejoinIsFresh ==
    trace.ingested =>
        \A id \in trace.rejoined :
            /\ isPlayerInTeam(members, id)
            /\ getMember(members, id) = NewMember(RecordOf(appTeamInfo.members, id))

\* a steamId came back while another one stayed in the roster
C10_Witness ==
    /\ trace.ingested
    /\ trace.rejoined # {}
    /\ Len(members) = 2
    /\ \E id \in trace.rejoined : Count(trace.joined, id) = 1

\* C11: updateTeamInfo finds the leader changed exactly when the snapshot's
\* leaderSteamId differs from the one stored before the call, and afterwards the
\* stored leaderSteamId is the snapshot's.
C11_LeaderChange ==
    trace.ingested =>
        /\ trace.leaderChanged <=> (trace.leaderSteamId # trace.leaderBefore)
        /\ appTeamInfo.leaderSteamId = trace.leaderSteamId

\* an ingest of a roster with members whose snapshot named another leader
C11_Witness ==
    /\ trace.ingested
    /\ trace.leaderChanged
    /\ trace.leaderBefore # appTeamInfo.leaderSteamId
    /\ Len(members) > 0

\* the place of a steamId in a member list
PositionOf(list, id) == CHOOSE j \in 1..Len(list) : list[j].steamId = id

\* the rank of a call in the order leader check, joined, left, remaining
PhaseOf(op) ==
    CASE op = "leader" -> 0
      [] op = "add" -> 1
      [] op = "remove" -> 2
      [] op = "update" -> 3

\* C12: one updateTeamInfo does the leader check, then the joined members, then
\* the left members, then the remaining members; joined and remaining members are
\* each handled in the order of the snapshot's member list.
C12_ProcessingOrder ==
    trace.ingested =>
        \A i, j \in 1..Len(trace.log) :
            i < j =>
                /\ PhaseOf(trace.log[i].op) <= PhaseOf(trace.log[j].op)
                /\ ( /\ trace.log[i].op = trace.log[j].op
                      /\ trace.log[i].op \in {"add", "update"} )
                   => PositionOf(appTeamInfo.members, trace.log[i].id)
                        < PositionOf(appTeamInfo.members, trace.log[j].id)

\* C17: the joined, left and remaining members of one updateTeamInfo are pairwise
\* disjoint: updateTeamInfoMember is not called on a member added by the same call.
C17_DisjointSets ==
    trace.ingested =>
        LET joined == { trace.joined[i] : i \in 1..Len(trace.joined) }
            left == { trace.left[i] : i \in 1..Len(trace.left) }
            remaining == ListedIds(trace.remaining)
        IN  /\ joined \cap left = {}
            /\ joined \cap remaining = {}
            /\ left \cap remaining = {}

\* seconds since the spawn time of a record, 0 for a record that never spawned
AliveOf(record, t) ==
    IF record.spawnTime = 0 THEN 0 ELSE (t \div MsPerSecond) - record.spawnTime

\* C13: getLongestAliveMember returns null exactly for an empty roster; otherwise
\* it returns the first member, in Map order, whose alive time no member exceeds,
\* the alive time being 0 for spawnTime 0 and now - spawnTime otherwise.
C13_LongestAlive ==
    LET longest == getLongestAliveMember(members, now)
    IN  /\ (longest = NoMember) <=> (Len(members) = 0)
        /\ \A i \in 1..Len(members) :
              getAliveSeconds(members[i].value, now)
                = AliveOf(members[i].value.appTeamInfoMember, now)
        /\ Len(members) > 0 =>
              \E i \in 1..Len(members) :
                  /\ longest = members[i].value
                  /\ \A j \in 1..Len(members) :
                        /\ AliveOf(members[j].value.appTeamInfoMember, now)
                             <= AliveOf(members[i].value.appTeamInfoMember, now)
                        /\ j < i => AliveOf(members[j].value.appTeamInfoMember, now)
                                      < AliveOf(members[i].value.appTeamInfoMember, now)

\* two members with the same positive alive time, the first of them is returned
C13_Witness ==
    /\ Len(members) = 2
    /\ AliveOf(members[1].value.appTeamInfoMember, now) > 0
    /\ AliveOf(members[1].value.appTeamInfoMember, now)
         = AliveOf(members[2].value.appTeamInfoMember, now)
    /\ getLongestAliveMember(members, now) = members[1].value

\* C14: a steamId gets its colour in the updateTeamInfo in which it first joins,
\* and no later updateTeamInfo changes or removes the colour stored for a steamId.
C14_ColourAssignedOnce ==
    [][ /\ \A id \in DOMAIN teamMemberChatColorMap :
              /\ id \in DOMAIN teamMemberChatColorMap'
              /\ teamMemberChatColorMap'[id] = teamMemberChatColorMap[id]
        /\ \A id \in SteamIds :
              (id \in known' \ known) => id \in DOMAIN teamMemberChatColorMap'
        /\ DOMAIN teamMemberChatColorMap' \subseteq known' ]_vars

\* a steamId that has its colour left and joined again
C14_Witness ==
    /\ trace.ingested
    /\ trace.rejoined # {}
    /\ \A id \in trace.rejoined :
          /\ Count(trace.joined, id) = 1
          /\ id \in DOMAIN teamMemberChatColorMap

\* C16: an update in which the stored and the incoming record are both offline
\* leaves lastMovementDate as it was, also when x or y differs.
C16_NoMovementWhileOffline ==
    [][ ( /\ now' = now
          /\ ~member.appTeamInfoMember.isOnline
          /\ ~member'.appTeamInfoMember.isOnline )
        => member'.lastMovementDate = member.lastMovementDate ]_vars

\* C18: for every stored state and incoming record, updateTeamInfoMember leaves the
\* Member in the state that the rule chain of the design gives (went offline; went
\* online, else moved, else stored offline; then the record is replaced).
C18_UpdateMatchesRuleChain == member = expected

\* an update in which the member came online and moved at once
C18_Witness ==
    /\ "GoneOnline" \in events
    /\ prev.x # member.appTeamInfoMember.x
    /\ member.lastMovementDate = lastSeen
    /\ lastSeen > 0

\* C19: wentOfflineDate is the time of the last update that took the member from
\* online to offline, no other update changes it, and getOfflineTime is null
\* exactly while there has been no such update.
C19_WentOfflineDate ==
    /\ member.wentOfflineDate = lastOfflineAt
    /\ (getOfflineTime(member, now) = Null) <=> (lastOfflineAt = Null)

\* the member went offline, came back later, and the date is still the old one
C19_Witness ==
    /\ lastOfflineAt # Null
    /\ member.wentOfflineDate = lastOfflineAt
    /\ lastSeen > lastOfflineAt
    /\ member.appTeamInfoMember.isOnline

\* C20: isAfk() is true exactly when lastMovementDate is set and getAfkSeconds(),
\* the time since then in seconds, is at least AFK_TIME_SECONDS.
C20_IdleNowInSeconds ==
    isAfk(member, now) <=>
        /\ member.lastMovementDate # Null
        /\ getAfkSeconds(member, now) >= AFK_TIME_SECONDS

\* C15, as claimed: an updateTeamInfo on one roster leaves the other roster's
\* members, leaderSteamId and aggregate flags unchanged, and changes nothing that
\* the other roster's updateTeamInfo reads or writes.
C15_NoSharedState ==
    [][ /\ actor' = 2 => UNCHANGED <<appTeamInfo, members, allOnline, allOffline,
                                     teamMemberChatColorMap>>
        /\ actor' = 1 => /\ second' = second
                         /\ ColorMapOfSecond' = ColorMapOfSecond ]_vars

\* C21: no operation sets wasAfk: it is false in every Member, on its own or in
\* the roster, before and after every call, so for every update the caller sees
\* GoneAfk exactly when the stored record is online and the position is the same.
C21_WasAfkNeverSet ==
    [][ /\ ~member.wasAfk /\ ~member'.wasAfk
        /\ \A i \in 1..Len(members') : ~members'[i].value.wasAfk
        /\ (now' = now /\ UNCHANGED rosterVars) =>
              ("GoneAfk" \in events' <=>
                 /\ member.appTeamInfoMember.isOnline
                 /\ member'.appTeamInfoMember.x = member.appTeamInfoMember.x
                 /\ member'.appTeamInfoMember.y = member.appTeamInfoMember.y) ]_vars

\* GoneAfk has been seen again for an update of the same online stretch
C21_Witness ==
    /\ "GoneAfk" \in events
    /\ afkRaised = 2
    /\ ~member.wasAfk
    /\ lastSeen > 0

\* C22: every roster entry's key is the steamId of its Member's record, and no
\* two entries have the same key.
C22_KeyIsSteamId ==
    /\ \A i \in 1..Len(members) : members[i].key = members[i].value.appTeamInfoMember.steamId
    /\ \A i, j \in 1..Len(members) : members[i].key = members[j].key => i = j

\* two members are in the roster and one of them was there before the last call
\* and has been updated by it
C22_Witness ==
    /\ trace.ingested
    /\ Len(members) = 2
    /\ \E i \in 1..Len(trace.remaining) : trace.remaining[i].steamId \in trace.before

\* C23, as claimed: GoneOnline and GoneOffline are never both seen for one update,
\* and GoneAlive and GoneDead are never both seen for one update.
C23_MutuallyExclusive ==
    /\ ~({"GoneOnline", "GoneOffline"} \subseteq events)
    /\ ~({"GoneAlive", "GoneDead"} \subseteq events)

\* C23, amended: GoneOnline and GoneOffline are never both seen for one update;
\* GoneAlive and GoneDead are both seen exactly when the stored record is dead,
\* the incoming one is alive and the death time differs.
C23_ExclusiveExceptNewDeathTime ==
    /\ ~({"GoneOnline", "GoneOffline"} \subseteq events)
    /\ {"GoneAlive", "GoneDead"} \subseteq events <=>
          /\ ~prev.isAlive
          /\ member.appTeamInfoMember.isAlive
          /\ prev.deathTime # member.appTeamInfoMember.deathTime

\* an update from dead to alive with another death time
C23_Witness ==
    /\ {"GoneAlive", "GoneDead"} \subseteq events
    /\ ~prev.isAlive
    /\ member.appTeamInfoMember.isAlive

\* C24: a steamId has at most one armed timeout, every armed timeout is the one
\* recorded under its steamId, and after a run of the expiration handler for a
\* steamId the Map has no entry for it.
C24_OneTimeoutPerSteamId ==
    /\ \A a, b \in timeouts : a.steamId = b.steamId => a = b
    /\ \A tm \in timeouts :
          /\ tm.steamId \in DOMAIN expirationTimeoutIds
          /\ expirationTimeoutIds[tm.steamId] = tm.id
    /\ lastCall.op = "handle" => lastCall.steamId \notin DOMAIN expirationTimeoutIds

\* a steamId was scheduled twice, its second timeout has fired, and the other
\* steamId has a timeout armed
C24_Witness ==
    /\ lastCall.op = "handle"
    /\ nextTimeoutId > 3
    /\ \E tm \in timeouts : tm.steamId # lastCall.steamId

NamesIn(seq) == { seq[i] : i \in 1..Len(seq) }

====
